---------------------------- MODULE Spec2Model ----------------------------
(***************************************************************************)
(* GCRA rate limiter of surgelimit-go / zenlimit.                          *)
(*                                                                         *)
(* Two families of backends are modelled:                                  *)
(*   - the Redis backends (LeakyBucketLimiter, Limiter, zlredis.Backend),  *)
(*     which run the Lua scripts allowN / allowAtMost as one atomic step;  *)
(*   - the EchoVault backend (zlechovault.Backend), which runs the same    *)
(*     algorithm in Go as a Get, a computation and a Set.                  *)
(*                                                                         *)
(* Numbers.  The code computes with float64 seconds.  The model computes   *)
(* exactly, with integers counting "units": one clock tick (the resolution *)
(* of redis TIME, 1/1000000 s in the code, 1/TicksPerSecond s here) is     *)
(* UnitsPerTick units, chosen so that period/rate is a whole number of     *)
(* units for every modelled limit.  A quotient x / emission_interval is    *)
(* kept as its numerator x; comparisons and floor are taken on it.         *)
(* Rounding error of float64 arithmetic itself is not modelled.            *)
(***************************************************************************)
EXTENDS Integers, Sequences, FiniteSets, TLC

(* ------------------------------ bounds -------------------------------- *)
MaxRate == 3
MaxBurst == 2
MaxN == 2
MaxTime == 3
MaxCallers == 2
TicksPerSecond == 2

(* ----------------------------- arithmetic ------------------------------ *)
Max(a, b) == IF a >= b THEN a ELSE b

RECURSIVE Gcd(_, _)
Gcd(a, b) == IF b = 0 THEN a ELSE Gcd(b, a % b)

RECURSIVE LcmUpTo(_)
LcmUpTo(n) == IF n <= 1 THEN 1 ELSE (n * LcmUpTo(n - 1)) \div Gcd(n, LcmUpTo(n - 1))

\* Units per clock tick: makes period/rate exact for every rate <= MaxRate.
UnitsPerTick == LcmUpTo(MaxRate)
UnitsPerSecond == TicksPerSecond * UnitsPerTick

\* a / b truncated toward zero: Lua number -> Redis integer reply, Go int(x).
Trunc(a, b) ==
    LET n == IF b > 0 THEN a ELSE -a
        d == IF b > 0 THEN b ELSE -b
    IN  IF n >= 0 THEN n \div d ELSE -((-n) \div d)
\* x / d < y / d, for quotients kept as their numerators (d # 0).
Less(x, y, d) == IF d > 0 THEN x < y ELSE x > y
\* math.ceil(x) for x in units, in whole seconds.
CeilSeconds(x) == -((-x) \div UnitsPerSecond)

(* ------------------------------- limits -------------------------------- *)
\* Period is counted in seconds; the modelled limits are per second, as
\* PerSecond / LimitPerSecond build them, with any burst.
Periods == {1}
Limits == [rate : 1..MaxRate, burst : 1..MaxBurst, period : Periods]

\* emission_interval = period / rate, in units.
EmissionInterval(limit) == (limit.period * UnitsPerSecond) \div limit.rate
BurstOffset(limit) == EmissionInterval(limit) * limit.burst

(* ------------------------------ the store ------------------------------ *)
\* One entry of the store: absent, or a value with the time it expires at.
Absent == [kind |-> "absent", val |-> 0, exp |-> 0]
NoSet == [do |-> FALSE, val |-> 0, ex |-> 0]

\* Mutant: the key expires a second early.
StoreSet_expiresEarly(entry, t, set) ==
    IF set.do
    THEN [kind |-> "num", val |-> set.val, exp |-> t + (set.ex - 1) * UnitsPerSecond]
    ELSE entry

\* SET key val EX ex, issued at time t.
StoreSet(entry, t, set) ==
    IF set.do
    THEN [kind |-> "num", val |-> set.val, exp |-> t + set.ex * UnitsPerSecond]
    ELSE entry

\* The store drops an entry once its time to live has passed.
Expire(entry, t) == IF entry.kind = "num" /\ entry.exp <= t THEN Absent ELSE entry

\* A value under the key that is no number, written by some other client
\* with a plain SET (no time to live): some text, or the empty string.
Malformed == {"text", "empty"}
Foreign(kind) == [kind |-> kind, val |-> 0, exp |-> 0]

\* Mutant: DEL leaves the key in place.
Del_keeps(entry) == [entry |-> entry, err |-> FALSE]

\* Mutant: DEL of a key that is not there is an error.
Del_failsOnAbsent(entry) == [entry |-> Absent, err |-> entry.kind = "absent"]

\* DEL key: the key is gone afterwards; deleting a key that is not there
\* deletes nothing and is no error.
Del(entry) == [entry |-> Absent, err |-> FALSE]

(* ------------------- the Lua scripts (Redis backends) ------------------ *)
\* Mutant: the stored TAT is ignored.
ScriptTat_ignoresStored(entry, now) == now

\* Mutant: a stored TAT in the past is used as it is.
ScriptTat_unclamped(entry, now) == IF entry.kind = "absent" THEN now ELSE entry.val

\* Mutant: a key that is absent reads as a TAT at the epoch.
ScriptTat_epoch(entry, now) == IF entry.kind = "absent" THEN 0 ELSE Max(entry.val, now)

\* GET, then "if not tat then tat = now else tat = tonumber(tat) end" and
\* "tat = math.max(tat, now)".  SET writes the number with %.17g, which
\* tonumber reads back unchanged.
ScriptTat(entry, now) == Max(IF entry.kind = "absent" THEN now ELSE entry.val, now)

\* Mutant: the last permit of the burst is refused.
allowN_denies_atZero(limit, cost, diff) == ~Less(0, diff, EmissionInterval(limit))

\* Mutant: a request for more than burst is waved through.
allowN_denies_upToBurst(limit, cost, diff) ==
    Less(diff, 0, EmissionInterval(limit)) /\ cost <= limit.burst

\* Mutant: nothing is refused.
allowN_denies_never(limit, cost, diff) == FALSE

\* allowN: "if remaining < 0", with remaining = diff / emission_interval.
allowN_denies(limit, cost, diff) == Less(diff, 0, EmissionInterval(limit))

\* Mutant: the denying branch stores the clamped tat.
allowN_deny_writes(tat, now, diff) ==
    [reply |-> [allowed |-> 0, remaining |-> 0,
                retry_after |-> diff * (-1), reset_after |-> tat - now],
     set |-> IF tat - now > 0
             THEN [do |-> TRUE, val |-> tat, ex |-> CeilSeconds(tat - now)]
             ELSE NoSet]

\* Mutant: a denial reports that the bucket is empty already.
allowN_deny_resetNow(tat, now, diff) ==
    [reply |-> [allowed |-> 0, remaining |-> 0,
                retry_after |-> diff * (-1), reset_after |-> 0],
     set |-> NoSet]

\* allowN: the reply and (no) write of the denying branch.
allowN_deny(tat, now, diff) ==
    [reply |-> [allowed |-> 0, remaining |-> 0,
                retry_after |-> diff * (-1), reset_after |-> tat - now],
     set |-> NoSet]

\* Mutant: remaining is rounded up instead of truncated.
allowN_admit_roundsUp(new_tat, now, limit, cost, diff) ==
    LET reset_after == new_tat - now
    IN  [reply |-> [allowed |-> cost,
                    remaining |-> -((-diff) \div EmissionInterval(limit)),
                    retry_after |-> -UnitsPerSecond, reset_after |-> reset_after],
         set |-> IF reset_after > 0
                 THEN [do |-> TRUE, val |-> new_tat, ex |-> CeilSeconds(reset_after)]
                 ELSE NoSet]

\* Mutant: the time to live is rounded down.
allowN_admit_ttlRoundedDown(new_tat, now, limit, cost, diff) ==
    LET reset_after == new_tat - now
    IN  [reply |-> [allowed |-> cost,
                    remaining |-> Trunc(diff, EmissionInterval(limit)),
                    retry_after |-> -UnitsPerSecond, reset_after |-> reset_after],
         set |-> IF reset_after > 0
                 THEN [do |-> TRUE, val |-> new_tat, ex |-> reset_after \div UnitsPerSecond]
                 ELSE NoSet]

\* Mutant: the request is charged twice.
allowN_admit_chargesTwice(new_tat, now, limit, cost, diff) ==
    LET twice == new_tat + EmissionInterval(limit) * cost
        reset_after == twice - now
    IN  [reply |-> [allowed |-> cost,
                    remaining |-> Trunc(diff, EmissionInterval(limit)),
                    retry_after |-> -UnitsPerSecond, reset_after |-> reset_after],
         set |-> IF reset_after > 0
                 THEN [do |-> TRUE, val |-> twice, ex |-> CeilSeconds(reset_after)]
                 ELSE NoSet]

\* allowN: the reply and the write of the admitting branch.  The reply's
\* numbers cost and remaining reach the client truncated to integers;
\* retry_after = -1 is minus one second.
allowN_admit(new_tat, now, limit, cost, diff) ==
    LET reset_after == new_tat - now
    IN  [reply |-> [allowed |-> cost,
                    remaining |-> Trunc(diff, EmissionInterval(limit)),
                    retry_after |-> -UnitsPerSecond, reset_after |-> reset_after],
         set |-> IF reset_after > 0
                 THEN [do |-> TRUE, val |-> new_tat, ex |-> CeilSeconds(reset_after)]
                 ELSE NoSet]

\* The script allowN, run on the entry of KEYS[1] at redis TIME = now.
allowN(entry, now, limit, cost) ==
    LET emission_interval == EmissionInterval(limit)
        increment == emission_interval * cost
        burst_offset == emission_interval * limit.burst
        tat == ScriptTat(entry, now)
        new_tat == tat + increment
        allow_at == new_tat - burst_offset
        diff == now - allow_at
    IN  IF allowN_denies(limit, cost, diff)
        THEN allowN_deny(tat, now, diff)
        ELSE allowN_admit(new_tat, now, limit, cost, diff)

\* Mutant: a bucket with exactly one permit left is refused.
allowAtMost_denies_atOne(limit, diff) ==
    ~Less(EmissionInterval(limit), diff, EmissionInterval(limit))

\* allowAtMost: "if remaining < 1".
allowAtMost_denies(limit, diff) ==
    Less(diff, EmissionInterval(limit), EmissionInterval(limit))

\* Mutant: retry_after as allowN computes it.
allowAtMost_deny_retryOfAllowN(tat, now, limit, diff) ==
    [reply |-> [allowed |-> 0, remaining |-> 0,
                retry_after |-> diff * (-1), reset_after |-> tat - now],
     set |-> NoSet]

\* allowAtMost: the denying branch.
allowAtMost_deny(tat, now, limit, diff) ==
    [reply |-> [allowed |-> 0, remaining |-> 0,
                retry_after |-> EmissionInterval(limit) - diff,
                reset_after |-> tat - now],
     set |-> NoSet]

\* Mutant: the request is not cut down to what remains.
allowAtMost_charge_uncut(limit, cost, diff) ==
    [cost |-> cost * EmissionInterval(limit),
     remaining |-> Max(0, diff - cost * EmissionInterval(limit))]

\* Mutant: a request cut down to what remains still reports what remained.
allowAtMost_charge_reportsOld(limit, cost, diff) ==
    IF Less(diff, cost * EmissionInterval(limit), EmissionInterval(limit))
    THEN [cost |-> diff, remaining |-> diff]
    ELSE [cost |-> cost * EmissionInterval(limit),
          remaining |-> diff - cost * EmissionInterval(limit)]

\* allowAtMost: "if remaining < cost then cost = remaining; remaining = 0
\* else remaining = remaining - cost end".  cost and remaining are Lua
\* numbers (not rounded); both are returned multiplied by emission_interval.
allowAtMost_charge(limit, cost, diff) ==
    IF Less(diff, cost * EmissionInterval(limit), EmissionInterval(limit))
    THEN [cost |-> diff, remaining |-> 0]
    ELSE [cost |-> cost * EmissionInterval(limit),
          remaining |-> diff - cost * EmissionInterval(limit)]

\* Mutant: what is admitted is not written.
allowAtMost_admit_forgets(tat, now, limit, c) ==
    [reply |-> [allowed |-> Trunc(c.cost, EmissionInterval(limit)),
                remaining |-> Trunc(c.remaining, EmissionInterval(limit)),
                retry_after |-> -UnitsPerSecond, reset_after |-> tat + c.cost - now],
     set |-> NoSet]

\* Mutant: remaining is rounded up to the next whole permit.
allowAtMost_admit_roundsUp(tat, now, limit, c) ==
    [reply |-> [allowed |-> Trunc(c.cost, EmissionInterval(limit)),
                remaining |-> -((-c.remaining) \div EmissionInterval(limit)),
                retry_after |-> -UnitsPerSecond, reset_after |-> tat + c.cost - now],
     set |-> IF tat + c.cost - now > 0
             THEN [do |-> TRUE, val |-> tat + c.cost, ex |-> CeilSeconds(tat + c.cost - now)]
             ELSE NoSet]

\* allowAtMost: the admitting branch; c is the result of allowAtMost_charge.
allowAtMost_admit(tat, now, limit, c) ==
    LET increment == c.cost
        new_tat == tat + increment
        reset_after == new_tat - now
    IN  [reply |-> [allowed |-> Trunc(c.cost, EmissionInterval(limit)),
                    remaining |-> Trunc(c.remaining, EmissionInterval(limit)),
                    retry_after |-> -UnitsPerSecond, reset_after |-> reset_after],
         set |-> IF reset_after > 0
                 THEN [do |-> TRUE, val |-> new_tat, ex |-> CeilSeconds(reset_after)]
                 ELSE NoSet]

\* The script allowAtMost.
allowAtMost(entry, now, limit, cost) ==
    LET burst_offset == BurstOffset(limit)
        tat == ScriptTat(entry, now)
        diff == now - (tat - burst_offset)
    IN  IF allowAtMost_denies(limit, diff)
        THEN allowAtMost_deny(tat, now, limit, diff)
        ELSE allowAtMost_admit(tat, now, limit, allowAtMost_charge(limit, cost, diff))

(* ----------------------- the EchoVault backend (Go) -------------------- *)
\* fmt.Sprintf("%f", x): x written with six decimals, i.e. rounded to the
\* nearest microsecond, which is one clock tick of the model; a value half
\* way between two ticks goes to the even one.
FormatF(x) ==
    LET lo == (x \div UnitsPerTick) * UnitsPerTick
        r == x - lo
    IN  IF 2 * r < UnitsPerTick THEN lo
        ELSE IF 2 * r > UnitsPerTick THEN lo + UnitsPerTick
        ELSE IF (x \div UnitsPerTick) % 2 = 0 THEN lo ELSE lo + UnitsPerTick

\* getTat: "if tatStr == "" { return now, nil }" comes first, so an absent
\* key, a stored empty string and a Get that failed without a value all
\* read as now; else ParseFloat, an error for text.
getTat(entry, fault, now) ==
    IF fault \/ entry.kind \in {"absent", "empty"} THEN [tat |-> now, err |-> FALSE]
    ELSE IF entry.kind = "text" THEN [tat |-> 0, err |-> TRUE]
    ELSE [tat |-> entry.val, err |-> FALSE]

\* Mutant: the Go code returns its result without writing.
Backend_set_never(newTat, now) == NoSet

\* The write of Backend.AllowN / Backend.AllowAtMost: "if resetAfter > 0".
Backend_set(newTat, now) ==
    IF newTat - now > 0
    THEN [do |-> TRUE, val |-> FormatF(newTat), ex |-> CeilSeconds(newTat - now)]
    ELSE NoSet

\* Backend.AllowN from the value read by getTat.
Backend_AllowN(tat0, now, limit, n) ==
    LET emissionInterval == EmissionInterval(limit)
        burstOffset == emissionInterval * limit.burst
        increment == emissionInterval * n
        tat == Max(tat0, now)
        newTat == tat + increment
        allowAt == newTat - burstOffset
        diff == now - allowAt
    IN  IF Less(diff, 0, emissionInterval)
        THEN [reply |-> [allowed |-> 0, remaining |-> 0,
                         retry_after |-> -diff, reset_after |-> tat - now],
              set |-> NoSet]
        ELSE [reply |-> [allowed |-> n, remaining |-> Trunc(diff, emissionInterval),
                         retry_after |-> -UnitsPerSecond, reset_after |-> newTat - now],
              set |-> Backend_set(newTat, now)]

\* Backend.AllowAtMost: "n = int(remaining)" charges whole permits.
Backend_AllowAtMost(tat0, now, limit, n) ==
    LET emissionInterval == EmissionInterval(limit)
        burstOffset == emissionInterval * limit.burst
        tat == Max(tat0, now)
        diff == now - (tat - burstOffset)
        cut == Less(diff, n * emissionInterval, emissionInterval)
        n2 == IF cut THEN Trunc(diff, emissionInterval) ELSE n
        remaining == IF cut THEN 0 ELSE diff - n * emissionInterval
        newTat == tat + emissionInterval * n2
    IN  IF Less(diff, emissionInterval, emissionInterval)
        THEN [reply |-> [allowed |-> 0, remaining |-> 0,
                         retry_after |-> emissionInterval - diff,
                         reset_after |-> tat - now],
              set |-> NoSet]
        ELSE [reply |-> [allowed |-> n2, remaining |-> Trunc(remaining, emissionInterval),
                         retry_after |-> -UnitsPerSecond, reset_after |-> newTat - now],
              set |-> Backend_set(newTat, now)]

(* ------------------------------ results -------------------------------- *)
\* A decision that returned (nil, err); read tells whether the store was read.
Failed(read) ==
    [err |-> TRUE, read |-> read,
     reply |-> [allowed |-> 0, remaining |-> 0, retry_after |-> 0, reset_after |-> 0],
     set |-> NoSet]
\* A decision that returned a result.
Ok(d) == [err |-> FALSE, read |-> TRUE, reply |-> d.reply, set |-> d.set]

\* tonumber(tat) is nil for a value that is no number, and math.max(nil, now)
\* raises an error: the script stops there.
ScriptFails(entry) == entry.kind \in Malformed

\* script.Run(...).Result() and "if err != nil { return nil, err }": the
\* error of a call that did not reach the store (fault), or of the script.
Run(script, entry, fault, now, limit, n) ==
    IF fault THEN Failed(FALSE)
    ELSE IF ScriptFails(entry) THEN Failed(TRUE)
    ELSE IF script = "allowN" THEN Ok(allowN(entry, now, limit, n))
    ELSE Ok(allowAtMost(entry, now, limit, n))

\* The write of a decision fails: b.client.Set returns an error and the call
\* returns (nil, err); in the scripts the SET raises and the script stops.
\* A decision that writes nothing is not touched by it.
WriteFails(d) == IF d.set.do THEN Failed(TRUE) ELSE d

\* Mutant: -1 is converted like any other number of seconds.
dur_plain(f) == f

\* dur: -1 (second) becomes the duration -1, anything else a duration of the
\* same length (durations are counted in units).
dur(f) == IF f = -UnitsPerSecond THEN -1 ELSE f

\* The *Result built from a reply.
Result(reply) ==
    [Allowed |-> reply.allowed, Remaining |-> reply.remaining,
     RetryAfter |-> dur(reply.retry_after), ResetAfter |-> dur(reply.reset_after)]

NoResult == [Allowed |-> 0, Remaining |-> 0, RetryAfter |-> 0, ResetAfter |-> 0]

\* One decision of either backend, run without interleaving.  fault: the
\* store call fails (for EchoVault, Get returns an error and no value).
Decide(backend, script, entry, fault, now, limit, n) ==
    IF backend = "redis"
    THEN Run(script, entry, fault, now, limit, n)
    ELSE LET g == getTat(entry, fault, now)
         IN  IF g.err THEN Failed(TRUE)
             ELSE IF script = "allowN" THEN Ok(Backend_AllowN(g.tat, now, limit, n))
             ELSE Ok(Backend_AllowAtMost(g.tat, now, limit, n))

(* ------------------------------- state --------------------------------- *)
VARIABLES
    clock,    \* the time, in units (redis TIME / time.Now())
    store,    \* key -> entry of the shared store
    cfg,      \* the limiter in use: its backend, and the Limit its callers pass
              \* when they all pass the same one (NoLimit when they do not)
    last,     \* the last call made through the limiter and what it did
    prev,     \* the call before it, when that call was denied
    streak,   \* Allow() calls made back to back, at one instant, on a fresh key
    pc,       \* EchoVault callers: where each is in its call
    loc,      \* EchoVault callers: the locals of the call in progress
    start,    \* EchoVault callers: the store when the calls in progress began
    admitted  \* t -> permits admitted by the calls made at tick t or later

vars == <<clock, store, cfg, last, prev, streak, pc, loc, start, admitted>>

Keys == {"k"}
Backends == {"redis", "echovault"}
Costs == 0..MaxN
Procs == 1..MaxCallers

NoLimit == [rate |-> 0, burst |-> 0, period |-> 0]

NoCall == [api |-> "none", key |-> "", limit |-> NoLimit, n |-> 0, at |-> 0,
           pre |-> Absent, post |-> Absent, res |-> NoResult, set |-> NoSet,
           err |-> FALSE, read |-> FALSE, back |-> FALSE, fault |-> FALSE,
           wfault |-> FALSE]
NoDenial == [api |-> "none", key |-> "", n |-> 0, at |-> 0, RetryAfter |-> 0]
\* What is remembered of the call before the last one: the request and its
\* RetryAfter when it was a denied decision.
Brief(call) ==
    IF call.api \in {"Allow", "AllowN", "AllowAtMost"} /\ call.res.RetryAfter # -1
    THEN [api |-> call.api, key |-> call.key, n |-> call.n, at |-> call.at,
          RetryAfter |-> call.res.RetryAfter]
    ELSE NoDenial
NoLoc == [api |-> "none", key |-> "", limit |-> NoLimit, n |-> 0, now |-> 0,
          res |-> NoResult, set |-> NoSet]

\* Start-up: an empty store, no call made yet.
Fresh ==
    /\ clock = 0
    /\ store = [k \in Keys |-> Absent]
    /\ last = NoCall
    /\ prev = NoDenial
    /\ streak = 0
    /\ pc = [p \in Procs |-> "idle"]
    /\ loc = [p \in Procs |-> NoLoc]
    /\ start = store
    /\ admitted = [t \in 0..MaxTime |-> 0]

Init == Fresh /\ cfg \in [backend : Backends, limit : Limits]

(* ---------------------- calls, one at a time --------------------------- *)
\* A decision run as one step: the script of a Redis backend, or a call of
\* the EchoVault backend that no other caller interleaves with.
\* back: this call read an earlier time than the call before it.
Call(api, script, k, limit, n, fault) ==
    \E d \in {Decide(cfg.backend, script, store[k], fault, clock, limit, n)} :
        /\ last' = [api |-> api, key |-> k, limit |-> limit, n |-> n, at |-> clock,
                    pre |-> store[k], post |-> StoreSet(store[k], clock, d.set),
                    res |-> Result(d.reply),
                    set |-> d.set, err |-> d.err, read |-> d.read,
                    back |-> (last.api # "none" /\ clock < last.at), fault |-> fault,
                    wfault |-> FALSE]
        /\ store' = [store EXCEPT ![k] = last'.post]
        /\ UNCHANGED <<clock, cfg, pc, loc, start>>

\* Limiter.AllowN / LeakyBucketLimiter.AllowN / Backend.AllowN
AllowN(k, n) ==
    /\ Call("AllowN", "allowN", k, cfg.limit, n, FALSE)
    /\ prev' = Brief(last)
    /\ streak' = 0
    /\ UNCHANGED admitted

\* AllowAtMost
AllowAtMost(k, n) ==
    /\ Call("AllowAtMost", "allowAtMost", k, cfg.limit, n, FALSE)
    /\ prev' = Brief(last)
    /\ streak' = 0
    /\ UNCHANGED admitted

\* Allow: "return l.AllowN(ctx, key, limit, 1)"
Allow(k) ==
    /\ Call("Allow", "allowN", k, cfg.limit, 1, FALSE)
    /\ prev' = Brief(last)
    /\ streak' = IF streak = 0
                 THEN (IF store[k] = Absent THEN 1 ELSE 0)
                 ELSE (IF streak <= cfg.limit.burst THEN streak + 1 ELSE 0)
    /\ UNCHANGED admitted

\* Reset: DEL key
Reset(k) ==
    /\ store' = [store EXCEPT ![k] = Del(@).entry]
    /\ last' = [NoCall EXCEPT !.api = "Reset", !.key = k, !.at = clock, !.pre = store[k],
                              !.post = Del(store[k]).entry, !.err = Del(store[k]).err]
    /\ prev' = NoDenial
    /\ streak' = 0
    /\ UNCHANGED <<clock, cfg, admitted, pc, loc, start>>

\* Time passes by one clock tick; the store drops what has expired.
Tick ==
    /\ clock < MaxTime * UnitsPerTick
    /\ clock' = clock + UnitsPerTick
    /\ store' = [k \in DOMAIN store |-> Expire(store[k], clock')]
    /\ streak' = 0
    /\ UNCHANGED <<cfg, admitted, last, prev, pc, loc, start>>

Next ==
    \/ \E k \in Keys, n \in Costs : AllowN(k, n)
    \/ \E k \in Keys, n \in Costs : AllowAtMost(k, n)
    \/ \E k \in Keys : Allow(k)
    \/ \E k \in Keys : Reset(k)
    \/ Tick

\* Every caller passes the same Limit.
Spec == Init /\ [][Next]_vars

(* --------------- calls, each with a Limit of its own ------------------- *)
\* The Limit is an argument of every call: nothing ties a key to one Limit.
AllowNWith(k, limit, n) ==
    /\ Call("AllowN", "allowN", k, limit, n, FALSE)
    /\ UNCHANGED <<prev, streak, admitted>>

AllowAtMostWith(k, limit, n) ==
    /\ Call("AllowAtMost", "allowAtMost", k, limit, n, FALSE)
    /\ UNCHANGED <<prev, streak, admitted>>

\* Mutant: Allow asks for nothing.
AllowWith_ofZero(k, limit) ==
    /\ Call("Allow", "allowN", k, limit, 0, FALSE)
    /\ UNCHANGED <<prev, streak, admitted>>

AllowWith(k, limit) ==
    /\ Call("Allow", "allowN", k, limit, 1, FALSE)
    /\ UNCHANGED <<prev, streak, admitted>>

ResetAny(k) ==
    /\ store' = [store EXCEPT ![k] = Del(@).entry]
    /\ last' = [NoCall EXCEPT !.api = "Reset", !.key = k, !.at = clock, !.pre = store[k],
                              !.post = Del(store[k]).entry, !.err = Del(store[k]).err]
    /\ UNCHANGED <<clock, cfg, admitted, prev, streak, pc, loc, start>>

\* Time passes; what the last call did is looked at before it does.
TickAny ==
    /\ clock < MaxTime * UnitsPerTick
    /\ clock' = clock + UnitsPerTick
    /\ store' = [k \in DOMAIN store |-> Expire(store[k], clock')]
    /\ last' = NoCall
    /\ UNCHANGED <<cfg, admitted, prev, streak, pc, loc, start>>

InitAny == Fresh /\ cfg \in [backend : Backends, limit : {NoLimit}]

NextAny ==
    \/ \E k \in Keys, l \in Limits, n \in Costs : AllowNWith(k, l, n)
    \/ \E k \in Keys, l \in Limits, n \in Costs : AllowAtMostWith(k, l, n)
    \/ \E k \in Keys, l \in Limits : AllowWith(k, l)
    \/ \E k \in Keys : ResetAny(k)
    \/ TickAny

SpecAny == InitAny /\ [][NextAny]_vars

(* ------- calls in a hostile environment: faults, bad values, bad limits - *)
\* Nothing checks a Limit before it is used: a caller may pass one with
\* rate <= 0 or period <= 0.  Those with a negative rate or period are
\* modelled (emission_interval < 0); rate = 0 or period = 0 gives inf and nan.
Valid(limit) == limit.rate > 0 /\ limit.period > 0
InvalidLimits ==
    [rate : {-1}, burst : 1..MaxBurst, period : Periods]
        \cup [rate : {1}, burst : 1..MaxBurst, period : {-1}]
AnyLimits == Limits \cup InvalidLimits

AllowNEnv(k, limit, n, fault) ==
    /\ Call("AllowN", "allowN", k, limit, n, fault)
    /\ UNCHANGED <<prev, streak, admitted>>

AllowAtMostEnv(k, limit, n, fault) ==
    /\ Call("AllowAtMost", "allowAtMost", k, limit, n, fault)
    /\ UNCHANGED <<prev, streak, admitted>>

AllowEnv(k, limit, fault) ==
    /\ Call("Allow", "allowN", k, limit, 1, fault)
    /\ UNCHANGED <<prev, streak, admitted>>

\* Some other client of the store writes a value that is no number.
Corrupt(k, kind) ==
    /\ store' = [store EXCEPT ![k] = Foreign(kind)]
    /\ last' = NoCall
    /\ UNCHANGED <<clock, cfg, admitted, prev, streak, pc, loc, start>>

NextEnv ==
    \/ \E k \in Keys, l \in AnyLimits, n \in Costs, f \in BOOLEAN : AllowNEnv(k, l, n, f)
    \/ \E k \in Keys, l \in AnyLimits, n \in Costs, f \in BOOLEAN : AllowAtMostEnv(k, l, n, f)
    \/ \E k \in Keys, l \in AnyLimits, f \in BOOLEAN : AllowEnv(k, l, f)
    \/ \E k \in Keys : ResetAny(k)
    \/ \E k \in Keys, kind \in Malformed : Corrupt(k, kind)
    \/ TickAny

SpecEnv == InitAny /\ [][NextEnv]_vars

(* ------------------- calls with a few, extreme Limits ------------------ *)
\* The slowest and the fastest rate, the smallest and the largest burst.
EdgeLimits == {l \in Limits : l.rate \in {1, MaxRate} /\ l.burst \in {1, MaxBurst}}

NextEdge ==
    \/ \E k \in Keys, l \in EdgeLimits, n \in Costs : AllowNWith(k, l, n)
    \/ \E k \in Keys, l \in EdgeLimits, n \in Costs : AllowAtMostWith(k, l, n)
    \/ \E k \in Keys, l \in EdgeLimits : AllowWith(k, l)
    \/ \E k \in Keys : ResetAny(k)
    \/ TickAny

SpecEdge == InitAny /\ [][NextEdge]_vars

(* ------------- script-based limiters under an unsteady clock ---------- *)
\* redis TIME is the wall clock of the server: it may be set back between
\* two calls.  Expiry times are kept by the same clock.
\* Of the call before, only the time it read is kept once the clock moves.
Earlier(call) ==
    IF call.api = "none" THEN NoCall ELSE [NoCall EXCEPT !.api = "earlier", !.at = call.at]

SkewForward ==
    /\ clock < MaxTime * UnitsPerTick
    /\ clock' = clock + UnitsPerTick
    /\ store' = [k \in DOMAIN store |-> Expire(store[k], clock')]
    /\ last' = Earlier(last)
    /\ UNCHANGED <<cfg, admitted, prev, streak, pc, loc, start>>

SkewBack ==
    /\ clock > 0
    /\ clock' = clock - UnitsPerTick
    /\ last' = Earlier(last)
    /\ UNCHANGED <<store, cfg, admitted, prev, streak, pc, loc, start>>

InitSkew == Fresh /\ cfg = [backend |-> "redis", limit |-> NoLimit]

NextSkew ==
    \/ \E k \in Keys, l \in EdgeLimits, n \in Costs : AllowNWith(k, l, n)
    \/ \E k \in Keys, l \in EdgeLimits, n \in Costs : AllowAtMostWith(k, l, n)
    \/ \E k \in Keys, l \in EdgeLimits : AllowWith(k, l)
    \/ \E k \in Keys : ResetAny(k)
    \/ SkewForward
    \/ SkewBack

SpecSkew == InitSkew /\ [][NextSkew]_vars

(* ------------- script-based limiters: what a key has admitted ---------- *)
\* The clock reading t counted in ticks.
TickOf(t) == t \div UnitsPerTick

\* A decision of a script-based limiter under the one Limit; the permits it
\* admits count for every interval that starts at or before the call.
Counted(api, script, k, n) ==
    /\ Call(api, script, k, cfg.limit, n, FALSE)
    /\ admitted' = [t \in DOMAIN admitted |->
                        IF t <= TickOf(clock) THEN admitted[t] + last'.res.Allowed
                        ELSE admitted[t]]
    /\ UNCHANGED <<prev, streak>>

InitRate == Fresh /\ cfg \in [backend : {"redis"}, limit : Limits]

\* One key, one Limit, no Reset.
NextRate ==
    \/ \E k \in Keys, n \in Costs : Counted("AllowN", "allowN", k, n)
    \/ \E k \in Keys, n \in Costs : Counted("AllowAtMost", "allowAtMost", k, n)
    \/ Tick

SpecRate == InitRate /\ [][NextRate]_vars

(* ------------------------- several keys, one store --------------------- *)
\* The keys the callers name, and the entries of the store they stand for.
UserKeys == {"u", "u:v"}
defaultKeyPrefix == "RATE_LIMIT"
keyPrefix == "rate:"

\* Mutant: the key is left out of the name of the store entry.
keyWithPrefix_dropsKey(prefix, key) == prefix

\* keyWithPrefix: "return keyPrefix + ":" + key"
keyWithPrefix(prefix, key) == prefix \o ":" \o key

\* The store entry of a key: keyWithPrefix(l.Options.KeyPrefix, key) in the
\* Redis limiters, keyPrefix + key in the EchoVault backend.
StoreKey(backend, key) ==
    IF backend = "redis" THEN keyWithPrefix(defaultKeyPrefix, key) ELSE keyPrefix \o key

InitKeys ==
    /\ clock = 0
    /\ cfg \in [backend : Backends, limit : EdgeLimits]
    /\ store = [s \in {StoreKey(cfg.backend, k) : k \in UserKeys} |-> Absent]
    /\ last = NoCall
    /\ prev = NoDenial
    /\ streak = 0
    /\ pc = [p \in Procs |-> "idle"]
    /\ loc = [p \in Procs |-> NoLoc]
    /\ start = store
    /\ admitted = [t \in 0..MaxTime |-> 0]

\* Every caller passes the one Limit, whatever the key.
NextKeys ==
    \/ \E k \in UserKeys, n \in Costs : AllowNWith(StoreKey(cfg.backend, k), cfg.limit, n)
    \/ \E k \in UserKeys, n \in Costs : AllowAtMostWith(StoreKey(cfg.backend, k), cfg.limit, n)
    \/ \E k \in UserKeys : AllowWith(StoreKey(cfg.backend, k), cfg.limit)
    \/ \E k \in UserKeys : ResetAny(StoreKey(cfg.backend, k))
    \/ TickAny

SpecKeys == InitKeys /\ [][NextKeys]_vars

(* --------------------- calls with any n, negative too ------------------ *)
\* n is an int that nothing checks before it reaches the script or the Go
\* code: "cost = tonumber(ARGV[4])", "increment := emissionInterval * float64(n)".
SignedCosts == (-MaxN)..MaxN

NextSigned ==
    \/ \E k \in Keys, l \in EdgeLimits, n \in SignedCosts : AllowNWith(k, l, n)
    \/ \E k \in Keys, l \in EdgeLimits, n \in SignedCosts : AllowAtMostWith(k, l, n)
    \/ \E k \in Keys, l \in EdgeLimits : AllowWith(k, l)
    \/ \E k \in Keys : ResetAny(k)
    \/ TickAny

SpecSigned == InitAny /\ [][NextSigned]_vars

(* ---------------------- calls whose write may fail --------------------- *)
\* A decision whose SET, if it issues one, fails.  wfault: a write was
\* issued and failed.
CallLosingWrite(api, script, k, limit, n) ==
    \E d \in {Decide(cfg.backend, script, store[k], FALSE, clock, limit, n)} :
        \E w \in {WriteFails(d)} :
            /\ last' = [api |-> api, key |-> k, limit |-> limit, n |-> n, at |-> clock,
                        pre |-> store[k], post |-> StoreSet(store[k], clock, w.set),
                        res |-> Result(w.reply),
                        set |-> w.set, err |-> w.err, read |-> w.read,
                        back |-> (last.api # "none" /\ clock < last.at), fault |-> FALSE,
                        wfault |-> d.set.do]
            /\ store' = [store EXCEPT ![k] = last'.post]
            /\ UNCHANGED <<clock, cfg, prev, streak, pc, loc, start, admitted>>

NextLoss ==
    \/ \E k \in Keys, l \in EdgeLimits, n \in Costs : AllowNWith(k, l, n)
    \/ \E k \in Keys, l \in EdgeLimits, n \in Costs : AllowAtMostWith(k, l, n)
    \/ \E k \in Keys, l \in EdgeLimits, n \in Costs :
           CallLosingWrite("AllowN", "allowN", k, l, n)
    \/ \E k \in Keys, l \in EdgeLimits, n \in Costs :
           CallLosingWrite("AllowAtMost", "allowAtMost", k, l, n)
    \/ \E k \in Keys : ResetAny(k)
    \/ TickAny

SpecLoss == InitAny /\ [][NextLoss]_vars

(* --------------- the EchoVault backend, callers interleaved ------------ *)
\* Backend.AllowN and Backend.AllowAtMost are three steps: read the clock,
\* Get the key and compute, Set the key (when the call admits and
\* resetAfter > 0).  Other callers' steps may come between them.
ScriptOf(api) == IF api = "AllowAtMost" THEN "allowAtMost" ELSE "allowN"

\* "now := float64(time.Now().UnixNano()) / 1e9" on entry to the call.
EV_Begin(p, api, k, limit, n) ==
    /\ pc[p] = "idle"
    /\ pc' = [pc EXCEPT ![p] = "get"]
    /\ loc' = [loc EXCEPT ![p] = [NoLoc EXCEPT !.api = api, !.key = k, !.limit = limit,
                                           !.n = n, !.now = clock]]
    /\ UNCHANGED <<clock, store, cfg, admitted, last, prev, streak, start>>

\* b.getTat and the computation up to the result or the Set.
EV_Get(p) ==
    /\ pc[p] = "get"
    /\ LET c == loc[p]
           d == Decide("echovault", ScriptOf(c.api), store[c.key], FALSE, c.now, c.limit, c.n)
       IN  /\ loc' = [loc EXCEPT ![p].res = Result(d.reply), ![p].set = d.set]
           /\ pc' = [pc EXCEPT ![p] = IF d.set.do THEN "set" ELSE "done"]
    /\ UNCHANGED <<clock, store, cfg, admitted, last, prev, streak, start>>

\* b.client.Set(rateLimitKey, newTat, EX), then the return of the result.
EV_Set(p) ==
    /\ pc[p] = "set"
    /\ store' = [store EXCEPT ![loc[p].key] = StoreSet(@, clock, loc[p].set)]
    /\ pc' = [pc EXCEPT ![p] = "done"]
    /\ UNCHANGED <<clock, cfg, admitted, last, prev, streak, loc, start>>

Quiescent == \A p \in Procs : pc[p] \in {"idle", "done"}
Returned == {p \in Procs : pc[p] = "done"}

\* Every caller has returned; the next calls start from the store as it is.
EV_Finish ==
    /\ Quiescent
    /\ Returned # {}
    /\ pc' = [p \in Procs |-> "idle"]
    /\ loc' = [p \in Procs |-> NoLoc]
    /\ start' = store
    /\ UNCHANGED <<clock, store, cfg, admitted, last, prev, streak>>

\* Time passes between calls.
EV_Tick ==
    /\ \A p \in Procs : pc[p] = "idle"
    /\ clock < MaxTime * UnitsPerTick
    /\ clock' = clock + UnitsPerTick
    /\ store' = [k \in DOMAIN store |-> Expire(store[k], clock')]
    /\ start' = store'
    /\ UNCHANGED <<cfg, admitted, last, prev, streak, pc, loc>>

InitEV == Fresh /\ cfg = [backend |-> "echovault", limit |-> NoLimit]

NextEV ==
    \/ \E p \in Procs, k \in Keys, l \in Limits, n \in Costs : EV_Begin(p, "AllowN", k, l, n)
    \/ \E p \in Procs, k \in Keys, l \in Limits, n \in Costs : EV_Begin(p, "AllowAtMost", k, l, n)
    \/ \E p \in Procs, k \in Keys, l \in Limits : EV_Begin(p, "Allow", k, l, 1)
    \/ \E p \in Procs : EV_Get(p)
    \/ \E p \in Procs : EV_Set(p)
    \/ EV_Finish
    \/ EV_Tick

SpecEV == InitEV /\ [][NextEV]_vars

(* ------------------------------ properties ----------------------------- *)
\* The quantities the specification names, computed from what a call found.
IsDecision(call) == call.api \in {"Allow", "AllowN", "AllowAtMost"}
IsAllowN(call) == call.api \in {"Allow", "AllowN"}
Admitted(call) == call.res.RetryAfter = -1
Ei(call) == EmissionInterval(call.limit)
\* tat = max(storedTAT ?? now, now)
TatOf(call) == Max(IF call.pre.kind = "absent" THEN call.at ELSE call.pre.val, call.at)
\* now - (tat - ei*burst): the remaining capacity before the call, times ei.
Capacity(call) == call.at - (TatOf(call) - Ei(call) * call.limit.burst)

Perms(S) ==
    {f \in [1..Cardinality(S) -> S] : \A i, j \in 1..Cardinality(S) : f[i] = f[j] => i = j}

\* The calls of `order`, run one after the other from store st, return what
\* the callers got and leave the store as it is now.
RECURSIVE SerialMatch(_, _)
SerialMatch(order, st) ==
    IF order = <<>>
    THEN st = store
    ELSE LET c == loc[Head(order)]
             d == Decide("echovault", ScriptOf(c.api), st[c.key], FALSE, c.now, c.limit, c.n)
         IN  /\ Result(d.reply) = c.res
             /\ SerialMatch(Tail(order), [st EXCEPT ![c.key] = StoreSet(@, c.now, d.set)])

RECURSIVE SumAllowed(_)
SumAllowed(S) ==
    IF S = {} THEN 0
    ELSE LET p == CHOOSE q \in S : TRUE IN loc[p].res.Allowed + SumAllowed(S \ {p})

\* C1: EchoVault backend: once the concurrent callers of a key have all
\* returned, their results and the stored TAT are those of the same calls
\* run in some serial order; and concurrent Allow() calls on a fresh key admit
\* at most burst in total.
C1_Serializable ==
    (Quiescent /\ Returned # {}) =>
        /\ \E order \in Perms(Returned) : SerialMatch(order, start)
        /\ \A l \in Limits :
               (\A p \in Returned : /\ loc[p].api = "Allow" /\ loc[p].limit = l
                                     /\ start[loc[p].key] = Absent)
               => SumAllowed(Returned) <= l.burst

\* C2: AllowN(cost) admits exactly when now - (tat + ei*cost - ei*burst) >= 0,
\* then returns allowed = cost and remaining = the floor of that quantity
\* over ei; otherwise allowed = 0 and remaining = 0; never 0 < allowed < cost.
C2_AllOrNothing ==
    IsAllowN(last) =>
        LET x == Capacity(last) - Ei(last) * last.n
        IN  /\ IF x >= 0
               THEN /\ Admitted(last)
                    /\ last.res.Allowed = last.n
                    /\ last.res.Remaining = x \div Ei(last)
               ELSE /\ ~Admitted(last)
                    /\ last.res.Allowed = 0
                    /\ last.res.Remaining = 0
            /\ ~(0 < last.res.Allowed /\ last.res.Allowed < last.n)

\* An AllowN admitted on a key that holds a TAT in the future, with capacity
\* left that is not a whole number of permits.
C2_Witness ==
    /\ last.api = "AllowN" /\ last.n >= 1 /\ last.pre.kind = "num"
    /\ last.pre.val > last.at
    /\ last.res.Allowed = last.n
    /\ (Capacity(last) - Ei(last) * last.n) % Ei(last) # 0

\* C3: a denied decision (AllowN with remaining < 0, AllowAtMost with
\* remaining < 1) writes nothing: the key's TAT and expiry are as before.
C3_DenialWritesNothing ==
    (/\ IsDecision(last)
     /\ \/ IsAllowN(last) /\ Capacity(last) - Ei(last) * last.n < 0
        \/ last.api = "AllowAtMost" /\ Capacity(last) < Ei(last))
    => (~last.set.do /\ last.post = last.pre)

\* A denied AllowN on a key that holds a TAT in the future.
C3_Witness ==
    /\ IsAllowN(last) /\ ~Admitted(last)
    /\ last.pre.kind = "num" /\ last.pre.val > last.at
    /\ store[last.key] = last.pre

\* C4: on a fresh key, Allow() calls made back to back at one instant (Redis
\* backends): the first burst calls admit with remaining burst-1, ..., 0
\* and the next one is denied with retryAfter = one emission interval.
C4_BurstCeiling ==
    (cfg.backend = "redis" /\ streak >= 1) =>
        IF streak <= last.limit.burst
        THEN /\ Admitted(last) /\ last.res.Allowed = 1
             /\ last.res.Remaining = last.limit.burst - streak
        ELSE /\ ~Admitted(last) /\ last.res.Allowed = 0
             /\ last.res.RetryAfter = Ei(last)

\* The call after a burst of two has been made and denied.
C4_Witness ==
    /\ cfg.backend = "redis" /\ last.limit.burst = 2 /\ streak = 3
    /\ last.res.Allowed = 0

\* C5 as stated: AllowAtMost(n) returns allowed <= n and
\* allowed <= floor((now - (tat - ei*burst)) / ei).
C5_Original ==
    last.api = "AllowAtMost" =>
        /\ last.res.Allowed <= last.n
        /\ last.res.Allowed <= Capacity(last) \div Ei(last)

\* C5: AllowAtMost(n) returns allowed <= n and allowed <= the remaining
\* capacity floor((now - (tat - ei*burst)) / ei), taken as 0 when the stored
\* TAT lies beyond now + ei*burst.
C5_Conservation ==
    last.api = "AllowAtMost" =>
        /\ last.res.Allowed <= last.n
        /\ last.res.Allowed <= Max(0, Capacity(last) \div Ei(last))

\* AllowAtMost asked for more than remains and admitted what remains.
C5_Witness ==
    /\ last.api = "AllowAtMost"
    /\ last.res.Allowed >= 1
    /\ last.res.Allowed < last.n
    /\ last.res.Allowed = Capacity(last) \div Ei(last)

\* The value a backend writes for the TAT x: the number itself (%.17g) in
\* the scripts, six decimals in the EchoVault backend.
Written(x) == IF cfg.backend = "echovault" THEN FormatF(x) ELSE x

\* C6: when AllowAtMost(n) admits and writes, the TAT written is
\* tat + ei*allowed, allowed being the count returned.
C6_ChargesWhatItAdmits ==
    (last.api = "AllowAtMost" /\ Admitted(last) /\ last.set.do) =>
        last.set.val = Written(TatOf(last) + Ei(last) * last.res.Allowed)

\* C7 as stated: a request denied at t with retryAfter R and repeated at
\* t + R, nothing else touching the key in between, is admitted.
C7_Original ==
    (/\ prev.api # "none" /\ IsDecision(last)
     /\ IsAllowN(last) = (prev.api \in {"Allow", "AllowN"})
     /\ last.n = prev.n /\ last.key = prev.key
     /\ last.at = prev.at + prev.RetryAfter)
    => Admitted(last)

\* C7: the same, for AllowAtMost(n) and for AllowN(cost) with cost <= burst,
\* repeated at t + R or later.
C7_RetryAfterSucceeds ==
    (/\ prev.api # "none" /\ IsDecision(last)
     /\ IsAllowN(last) = (prev.api \in {"Allow", "AllowN"})
     /\ last.n = prev.n /\ last.key = prev.key
     /\ last.at >= prev.at + prev.RetryAfter
     /\ (IsAllowN(last) => last.n <= last.limit.burst))
    => Admitted(last)

\* An AllowN denied on a loaded key, repeated exactly retryAfter later.
C7_Witness ==
    /\ prev.api = "AllowN" /\ last.api = "AllowN" /\ last.n = prev.n
    /\ prev.RetryAfter > 0
    /\ last.at = prev.at + prev.RetryAfter
    /\ last.n <= last.limit.burst
    /\ Admitted(last)

\* C8: under one Limit, AllowN(0) admits (allowed = 0, retryAfter = -1) and
\* the stored TAT value after it is the one before it.
C8_ZeroCostNoOp ==
    (IsAllowN(last) /\ last.n = 0) =>
        /\ last.res.Allowed = 0 /\ last.res.RetryAfter = -1
        /\ last.post.kind = last.pre.kind /\ last.post.val = last.pre.val

\* C9: AllowN(0) issues no write.
C9_ZeroCostNoWrite ==
    (IsAllowN(last) /\ last.n = 0) => ~last.set.do

\* C10: if AllowN(c1) is denied, AllowN(c2) with c2 > c1 made next at the
\* same time is denied too.
C10_DenialMonotone ==
    (/\ prev.api \in {"Allow", "AllowN"} /\ IsAllowN(last)
     /\ last.key = prev.key /\ last.at = prev.at /\ last.n > prev.n)
    => ~Admitted(last)

\* A denied AllowN(1) followed at once by AllowN(2).
C10_Witness ==
    /\ prev.api = "AllowN" /\ prev.n = 1 /\ last.api = "AllowN" /\ last.n = 2
    /\ last.at = prev.at /\ ~Admitted(last)

\* C11: Allow() made right after Reset(key), whatever the key held and with
\* any valid Limit, is admitted with remaining = burst - 1.
C11_ResetThenAllow ==
    [][(last.api = "Reset" /\ last'.api = "Allow" /\ last'.key = last.key)
       => (/\ Admitted(last') /\ last'.res.Allowed = 1
           /\ last'.res.Remaining = last'.limit.burst - 1)]_vars

\* Reset has just been called on a key whose bucket was exhausted for good:
\* the stored TAT was a whole second or more ahead.
C11_Witness ==
    /\ last.api = "Reset" /\ last.pre.kind = "num"
    /\ last.pre.val >= last.at + UnitsPerSecond
    /\ store[last.key] = Absent

\* C12: Reset(key) returns no error, also when the key is absent, leaves
\* the key absent, and a second Reset leaves the store as the first left it.
C12_ResetIdempotent ==
    [][(last'.api = "Reset")
       => (/\ ~last'.err
           /\ store'[last'.key] = Absent
           /\ (last.api = "Reset" /\ last.key = last'.key => store' = store))]_vars

\* Reset has been called on a key that was absent.
C12_Witness ==
    /\ last.api = "Reset" /\ last.pre = Absent /\ ~last.err
    /\ store[last.key] = Absent

\* What "the decision failed and did nothing" means for the last call: an
\* error and no result came back, nothing was written.
FailedClean(call) ==
    /\ call.err /\ call.res = NoResult
    /\ ~call.set.do /\ call.post = call.pre

\* C13: when the value stored under the key is no number (the empty string
\* included), a decision returns an error, admits nothing and leaves the
\* stored value as it was.
C13_MalformedSurfaced ==
    (/\ IsDecision(last) /\ Valid(last.limit) /\ ~last.fault
     /\ last.pre.kind \in Malformed)
    => FailedClean(last)

\* C14: when the read of the TAT fails, the decision returns an error,
\* admits nothing and writes nothing.
C14_ReadFailureSurfaced ==
    (IsDecision(last) /\ Valid(last.limit) /\ last.fault) => FailedClean(last)

\* C15: a decision called with rate <= 0 or period <= 0 returns an error
\* without reading or writing the store.
C15_InvalidLimitRejected ==
    (IsDecision(last) /\ ~Valid(last.limit) /\ ~last.fault)
    => (FailedClean(last) /\ ~last.read)

\* C16: script-based limiters: whatever a decision writes as TAT is >= the
\* TAT the key held before the call, under any Limits and also when the
\* call reads an earlier time than the calls before it.
C16_TatNeverDecreases ==
    (IsDecision(last) /\ last.set.do /\ last.pre.kind = "num")
    => last.set.val >= last.pre.val

\* A decision that read an earlier time than the call before it, found a
\* TAT ahead of its clock and wrote a new one.
C16_Witness ==
    /\ IsDecision(last) /\ last.back /\ last.set.do
    /\ last.pre.kind = "num" /\ last.pre.val > last.at
    /\ last.set.val > last.pre.val

\* C17: an admitting decision writes exactly when resetAfter = newTat - now
\* is > 0, and then writes newTat with a time to live of ceil(resetAfter)
\* whole seconds; when resetAfter <= 0 it writes nothing.
C17_WritesIffResetAfterPositive ==
    (IsDecision(last) /\ Admitted(last)) =>
        LET resetAfter == last.res.ResetAfter
            newTat == last.at + resetAfter
        IN  IF resetAfter > 0
            THEN /\ last.set = [do |-> TRUE, val |-> Written(newTat),
                                ex |-> CeilSeconds(resetAfter)]
                 /\ last.post = [kind |-> "num", val |-> Written(newTat),
                                 exp |-> last.at + CeilSeconds(resetAfter) * UnitsPerSecond]
            ELSE /\ ~last.set.do /\ last.post = last.pre

\* An admitting decision whose resetAfter is more than a second and not a
\* whole number of seconds: the time to live is rounded up to two or more.
C17_Witness ==
    /\ IsDecision(last) /\ Admitted(last) /\ last.set.do
    /\ last.res.ResetAfter > UnitsPerSecond
    /\ last.res.ResetAfter % UnitsPerSecond # 0
    /\ last.set.ex >= 2

\* C18: AllowAtMost(n), n >= 1, is denied (allowed = 0, remaining = 0,
\* retryAfter = ei - diff) exactly when the remaining capacity diff/ei is
\* below 1; otherwise it admits min(n, floor(diff/ei)) >= 1 permits with
\* retryAfter = -1.
C18_AtMostAdmitsWhatFits ==
    (last.api = "AllowAtMost" /\ last.n >= 1) =>
        LET diff == Capacity(last)
            whole == diff \div Ei(last)
        IN  IF diff < Ei(last)
            THEN /\ last.res.Allowed = 0 /\ last.res.Remaining = 0
                 /\ last.res.RetryAfter = Ei(last) - diff
            ELSE /\ last.res.RetryAfter = -1
                 /\ last.res.Allowed = (IF last.n <= whole THEN last.n ELSE whole)
                 /\ last.res.Allowed >= 1

\* AllowAtMost asked for more than fits, the capacity being between one
\* and two permits: one is admitted.
C18_Witness ==
    /\ last.api = "AllowAtMost" /\ last.n >= 2
    /\ Capacity(last) > Ei(last) /\ Capacity(last) < 2 * Ei(last)
    /\ last.res.Allowed = 1 /\ last.res.RetryAfter = -1

\* AllowAtMost(n) with n > burst has just been called on a fresh key.
OverAsk(call) ==
    /\ call.api = "AllowAtMost" /\ call.pre = Absent
    /\ call.n > call.limit.burst

Empty(entry, now) == entry.kind = "absent" \/ (entry.kind = "num" /\ entry.val <= now)

\* The last call was a decision of a script-based limiter, no call has
\* been made since, and its resetAfter has passed.
ResetAfterPassed ==
    /\ cfg.backend = "redis" /\ IsDecision(last)
    /\ clock >= last.at + last.res.ResetAfter

\* C20: script-based limiters: once resetAfter of a decision has passed
\* with no admitting decision since, the key is EMPTY and AllowN(burst) is
\* admitted.
C20_ResetAfterRestoresBurst ==
    /\ [](ResetAfterPassed => Empty(store[last.key], clock))
    /\ [][(/\ ResetAfterPassed
            /\ last' # last
            /\ last'.api = "AllowN" /\ last'.key = last.key
            /\ last'.n = cfg.limit.burst)
           => Admitted(last')]_vars

\* resetAfter of an admitting decision has passed and the key still holds
\* its TAT, which is no longer in the future.
C20_Witness ==
    /\ ResetAfterPassed /\ Admitted(last) /\ last.res.ResetAfter > 0
    /\ clock > last.at
    /\ store[last.key].kind = "num" /\ store[last.key].val <= clock

ScriptNames == {"allowN", "allowAtMost"}
\* The clock readings from t on, tick by tick.
TimesFrom(t) == {t + i * UnitsPerTick : i \in 0..MaxTime}

\* A decision on entry a and the same decision on entry b return the same
\* result (or both an error) and issue the same write, at time t and at
\* every later one, whatever the Limit and the request.
SameDecisions(backend, a, b, t) ==
    \A u \in TimesFrom(t), l \in Limits, n \in Costs, s \in ScriptNames :
        LET x == Decide(backend, s, a, FALSE, u, l, n)
            y == Decide(backend, s, b, FALSE, u, l, n)
        IN  x.err = y.err /\ x.reply = y.reply /\ x.set = y.set

\* C21: when the store drops a key because the time to live set by a
\* decision has run out, the TAT dropped is <= the time of the expiry, and
\* every decision made from then on returns and writes what it would have
\* with the TAT still stored.
C21_ExpiryForgivesNothing ==
    [][\A k \in Keys :
           (clock' > clock /\ store[k].kind = "num" /\ store'[k] = Absent)
           => /\ store[k].val <= clock'
              /\ SameDecisions(cfg.backend, store[k], store'[k], clock')]_vars

\* The key written by the last decision has just expired, at the very time
\* its TAT was due: the time to live was not a tick too long.
C21_Witness ==
    /\ IsDecision(last) /\ last.set.do /\ last.post.kind = "num"
    /\ store[last.key] = Absent
    /\ clock = last.post.exp /\ last.post.val = clock

\* C22: a decision that finds a TAT <= now under the key returns the result
\* and issues the write (the same value and time to live, or none) that the
\* same call returns and issues at the same time when the key is absent.
C22_AbsentIsEmpty ==
    (IsDecision(last) /\ last.pre.kind = "num" /\ last.pre.val <= last.at) =>
        LET d == Decide(cfg.backend, ScriptOf(last.api), Absent, FALSE,
                        last.at, last.limit, last.n)
        IN  /\ ~last.err /\ ~d.err
            /\ last.res = Result(d.reply)
            /\ last.set = d.set

\* A decision found a TAT that lay in the past, the key not yet expired,
\* admitted and wrote a new TAT.
C22_Witness ==
    /\ IsDecision(last) /\ last.pre.kind = "num" /\ last.pre.val < last.at
    /\ last.n >= 1 /\ Admitted(last) /\ last.set.do

\* C23: every decision that returns a result returns 0 <= allowed <= n and
\* a remaining that is a whole number >= 0: 0 when it denies, and when it
\* admits the capacity left after the permits admitted, in whole permits
\* rounded down.
C23_ResultInRange ==
    (IsDecision(last) /\ ~last.err) =>
        /\ 0 <= last.res.Allowed /\ last.res.Allowed <= last.n
        /\ last.res.Remaining >= 0
        /\ IF Admitted(last)
           THEN last.res.Remaining =
                    (Capacity(last) - Ei(last) * last.res.Allowed) \div Ei(last)
           ELSE last.res.Remaining = 0

\* AllowAtMost admitted all it was asked for and left a capacity that is
\* not a whole number of permits.
C23_Witness ==
    /\ last.api = "AllowAtMost" /\ last.n >= 1 /\ Admitted(last)
    /\ last.res.Allowed = last.n
    /\ (Capacity(last) - Ei(last) * last.n) % Ei(last) # 0

\* C24: in either backend a call of Allow(key, limit) returns the result,
\* or the error, that AllowN(key, limit, 1) returns from the same store at
\* the same time, and leaves the store as that call leaves it.
C24_AllowIsAllowNOfOne ==
    [][(last'.api = "Allow") =>
           \E d \in {Decide(cfg.backend, "allowN", store[last'.key], FALSE, clock,
                            last'.limit, 1)} :
               /\ last'.err = d.err
               /\ last'.res = Result(d.reply)
               /\ store' = [store EXCEPT ![last'.key] = StoreSet(@, clock, d.set)]]_vars

\* Allow() was admitted on a key that held a TAT ahead of the clock, and
\* moved it one emission interval on.
C24_Witness ==
    /\ last.api = "Allow" /\ Admitted(last) /\ last.res.Allowed = 1
    /\ last.pre.kind = "num" /\ last.pre.val > last.at
    /\ last.set.do /\ store[last.key].val = last.set.val

\* C25: script-based limiters, one Limit, one key, no Reset: the permits
\* admitted by the calls made from time t0 to now number at most
\* burst + (now - t0) / ei, for every t0.  (Stated with both sides times ei.)
C25_RateBound ==
    \A t \in DOMAIN admitted :
        t <= TickOf(clock) =>
            admitted[t] * EmissionInterval(cfg.limit)
                <= BurstOffset(cfg.limit) + (clock - t * UnitsPerTick)

\* The bound is met over an interval that is longer than one emission
\* interval: a full burst and then every permit that came due.
C25_Witness ==
    /\ IsDecision(last) /\ Admitted(last) /\ last.res.Allowed >= 1 /\ last.at = clock
    /\ clock >= EmissionInterval(cfg.limit)
    /\ admitted[0] * EmissionInterval(cfg.limit) = BurstOffset(cfg.limit) + clock

\* C26: a decision or a Reset on a key reads and writes the store entry of
\* that key and no other: the entries of all other keys are after the call
\* what they were before it, and the result is the one computed from the
\* entry of the key alone.
C26_KeyIsolation ==
    [][(IsDecision(last') \/ last'.api = "Reset") =>
           \E k \in UserKeys :
               /\ last'.key = StoreKey(cfg.backend, k)
               /\ \A j \in UserKeys \ {k} :
                      store'[StoreKey(cfg.backend, j)] = store[StoreKey(cfg.backend, j)]
               /\ IsDecision(last') =>
                      \E d \in {Decide(cfg.backend, ScriptOf(last'.api), store[last'.key],
                                       FALSE, clock, last'.limit, last'.n)} :
                          /\ last'.res = Result(d.reply)
                          /\ store'[last'.key] = StoreSet(store[last'.key], clock, d.set)]_vars

\* A decision on one key has written a TAT while the other key holds a
\* different one.
C26_Witness ==
    /\ IsDecision(last) /\ last.set.do
    /\ \E j \in DOMAIN store :
           /\ j # last.key /\ store[j].kind = "num"
           /\ store[j].val > clock /\ store[j].val # store[last.key].val

\* C27: script-based limiters: after a decision admitted and reported
\* remaining = r, an AllowN(k) made next on the key, at the same time and
\* under the same Limit, is admitted exactly when k <= r.
C27_RemainingIsTruthful ==
    [][(/\ cfg.backend = "redis"
        /\ IsDecision(last) /\ ~last.err /\ Admitted(last)
        /\ last'.api = "AllowN" /\ last'.key = last.key
        /\ last'.limit = last.limit /\ last'.at = last.at)
       => (Admitted(last') <=> last'.n <= last.res.Remaining)]_vars

\* A decision of a script-based limiter has just admitted and reported one
\* permit remaining, the capacity left being more than one permit and less
\* than two.
C27_Witness ==
    /\ cfg.backend = "redis" /\ IsDecision(last) /\ Admitted(last)
    /\ clock = last.at /\ last.res.Remaining = 1
    /\ (Capacity(last) - Ei(last) * last.res.Allowed) % Ei(last) # 0

\* C28: script-based limiters: an admitting decision reports
\* 0 <= resetAfter <= ei*burst and writes no TAT beyond now + ei*burst; and
\* when every caller passes the one Limit, no key ever holds a TAT beyond
\* now + ei*burst.
C28_TatWithinBurst ==
    cfg.backend = "redis" =>
        /\ (IsDecision(last) /\ Admitted(last)) =>
               /\ 0 <= last.res.ResetAfter
               /\ last.res.ResetAfter <= BurstOffset(last.limit)
               /\ last.set.do => last.set.val <= last.at + BurstOffset(last.limit)
        /\ \A k \in DOMAIN store :
               store[k].kind = "num" => store[k].val <= clock + BurstOffset(cfg.limit)

\* AllowAtMost found a loaded key, admitted what was left and wrote a TAT
\* of exactly now + ei*burst.
C28_Witness ==
    /\ cfg.backend = "redis" /\ last.api = "AllowAtMost" /\ Admitted(last)
    /\ last.pre.kind = "num" /\ last.pre.val > last.at
    /\ last.set.do /\ last.set.val = last.at + BurstOffset(last.limit)
    /\ store[last.key].val = last.set.val

\* C29: when every caller passes the one Limit, every decision returns
\* allowed + remaining <= burst.
C29_NeverMoreThanBurst ==
    (IsDecision(last) /\ ~last.err) =>
        last.res.Allowed + last.res.Remaining <= cfg.limit.burst

\* A decision admitted a permit and reported another one remaining: the
\* whole burst, no more.
C29_Witness ==
    /\ IsDecision(last) /\ Admitted(last)
    /\ last.res.Allowed >= 1 /\ last.res.Remaining >= 1
    /\ last.res.Allowed + last.res.Remaining = cfg.limit.burst

\* What each implementation does with the call that was just made: the
\* Lua script of the Redis backends and the Go code of the EchoVault backend,
\* run from the same stored TAT at the same time.
ByScript(call) ==
    Decide("redis", ScriptOf(call.api), call.pre, FALSE, call.at, call.limit, call.n)
ByGo(call) ==
    Decide("echovault", ScriptOf(call.api), call.pre, FALSE, call.at, call.limit, call.n)

\* C30: run from the same stored TAT, time, Limit and n, the Lua scripts and
\* the Go code of the EchoVault backend return the same allowed, remaining,
\* retryAfter and resetAfter and write the same TAT (or none), for AllowN
\* and for AllowAtMost.
C30_BackendsAgree ==
    (IsDecision(last) /\ ~last.err) =>
        /\ Result(ByScript(last).reply) = Result(ByGo(last).reply)
        /\ ByScript(last).set = ByGo(last).set

\* C31: AllowN(n) and AllowAtMost(n) with n < 0 return allowed >= 0 and leave
\* under the key a TAT that is not lower than the one they found.
C31_NegativeNeverRefunds ==
    (IsDecision(last) /\ last.n < 0 /\ ~last.err) =>
        /\ last.res.Allowed >= 0
        /\ last.pre.kind = "num" =>
               (last.post.kind = "num" /\ last.post.val >= last.pre.val)

\* C32: in either backend a decision that returns allowed >= 1 has written
\* its newTat = now + resetAfter under the key before it returns; and a
\* decision whose write fails returns an error and no result.
C32_AdmissionIsCharged ==
    IsDecision(last) =>
        /\ (~last.err /\ last.res.Allowed >= 1) =>
               /\ last.set.do
               /\ last.set.val = Written(last.at + last.res.ResetAfter)
               /\ last.post.kind = "num" /\ last.post.val = last.set.val
               /\ store[last.key] = last.post
        /\ last.wfault => (/\ last.err /\ last.res = NoResult
                           /\ ~last.set.do /\ store[last.key] = last.pre)

\* The write of a decision that asked for a permit on a loaded key failed:
\* the caller got an error and the key holds what it held.
C32_Witness ==
    /\ IsDecision(last) /\ last.wfault /\ last.n >= 1 /\ last.err
    /\ last.pre.kind = "num" /\ last.pre.val > last.at
    /\ store[last.key] = last.pre

\* The decision took the admitting branch of its script: computed from what
\* the call found, not from the result.
Admits(call) ==
    IF IsAllowN(call) THEN Capacity(call) - Ei(call) * call.n >= 0
    ELSE Capacity(call) >= Ei(call)

\* C33: a result carries retryAfter = -1 exactly when the decision admitted;
\* a denied result carries retryAfter > 0, and resetAfter > 0 when n <= burst.
C33_SentinelUnambiguous ==
    (IsDecision(last) /\ ~last.err) =>
        /\ (last.res.RetryAfter = -1) <=> Admits(last)
        /\ ~Admits(last) =>
               /\ last.res.RetryAfter > 0
               /\ last.n <= last.limit.burst => last.res.ResetAfter > 0

\* AllowAtMost was denied on a key whose next permit is less than one
\* emission interval away.
C33_Witness ==
    /\ last.api = "AllowAtMost" /\ last.n >= 1 /\ last.n <= last.limit.burst
    /\ ~Admits(last) /\ last.res.Allowed = 0
    /\ last.res.RetryAfter > 0 /\ last.res.RetryAfter < Ei(last)
    /\ last.res.ResetAfter > last.res.RetryAfter

\* The store operations one call issued on its key.  A decision of the
\* EchoVault backend always issues its Get; a script issues its GET when it
\* runs.  A write is issued when the decision has one to make, whether it
\* succeeds or fails.
ReadsIssued(call) == IF call.read \/ cfg.backend = "echovault" THEN 1 ELSE 0
WritesIssued(call) == IF call.set.do \/ call.wfault THEN 1 ELSE 0
DeletesIssued(call) == IF call.api = "Reset" THEN 1 ELSE 0

\* C34: a decision issues at most one read and at most one write of its key,
\* a Reset exactly one delete and nothing else; and a decision whose store
\* call fails ends there with an error: it returns no result and writes
\* nothing.
C34_NoInternalRetries ==
    /\ (IsDecision(last) /\ Valid(last.limit)) =>
           /\ ReadsIssued(last) <= 1 /\ WritesIssued(last) <= 1
           /\ DeletesIssued(last) = 0
           /\ last.fault => (FailedClean(last) /\ WritesIssued(last) = 0)
    /\ last.api = "Reset" =>
           /\ DeletesIssued(last) = 1 /\ WritesIssued(last) = 0
           /\ last.post = Absent

=============================================================================
